---- MODULE Spec2Model ----
(***************************************************************************)
(* The max_intersections aggregate of                                      *)
(* src/function/aggregate/distributive/max_intersections.cpp:              *)
(* partial aggregation states holding a vector of (start, end) intervals,  *)
(* the callbacks Operation, ConstantOperation, Combine, Destroy and        *)
(* Finalize, and the sweep over the sorted start/end events.               *)
(*                                                                         *)
(* int64_t is scaled to IntBits bits: MinInt64 .. MaxInt64.  The signed    *)
(* overflow of `interval.second + 1` is undefined behaviour; a build       *)
(* either wraps to MinInt64 or traps (-ftrapv, sanitizer builds).          *)
(***************************************************************************)
EXTENDS Integers, Sequences, FiniteSets, Bags, TLC

\* ---------------------------------------------------------------- bounds
IntBits == 3
MaxIntervals == 3
MaxCount == 2
NumUnits == 3

MaxInt64 == 2^(IntBits - 1) - 1
MinInt64 == -(2^(IntBits - 1))
Int64 == MinInt64..MaxInt64

\* The endpoint values handed to the callbacks.
Endpoints == {-1, 0, MaxInt64}
\* Combine takes two states, a source and a target.
StateIds == {1, 2}
\* The execution units of a parallel aggregation, one partial state each.
UnitIds == 1..NumUnits
OverflowOutcomes == {"wrap", "trap"}

VARIABLES
    states,       \* states[s]: the vector `intervals` of partial state s
    status,       \* "running" until Finalize has been called
    finalized,    \* the state Finalize was called on (0 before)
    target,       \* Finalize's output
    events,       \* Finalize's local vector `events` as the sweep reads it
    sweep,        \* current_count after each event of the sweep
    last,         \* the callback the host invoked last
    destroyed,    \* the states the host has destroyed after combining them
    direct,       \* a single state that receives every row directly
    directTarget  \* Finalize's output on `direct`

vars == <<states, status, finalized, target, events, sweep, last,
          destroyed, direct, directTarget>>

\* ------------------------------------------------------------ the state
MaxIntersectionsState == <<>>

NoTarget == [outcome |-> "none", value |-> 0]

\* ---------------------------------------------------- accumulate, combine
\* Operation without the validity test.
OperationUnchecked(intervals, left, right) ==
    Append(intervals, <<left, right>>)

Operation(intervals, left, right) ==
    IF left <= right THEN Append(intervals, <<left, right>>) ELSE intervals

RECURSIVE EmplaceTimes(_, _, _)
EmplaceTimes(intervals, interval, count) ==
    IF count = 0 THEN intervals
    ELSE EmplaceTimes(Append(intervals, interval), interval, count - 1)

\* ConstantOperation that emplaces the interval once, whatever the count.
ConstantOperationOnce(intervals, left, right, count) ==
    IF left <= right THEN Append(intervals, <<left, right>>)
    ELSE intervals

ConstantOperation(intervals, left, right, count) ==
    IF left <= right THEN EmplaceTimes(intervals, <<left, right>>, count)
    ELSE intervals

\* Combine that moves the source into an empty target and otherwise keeps
\* the target.
CombineMoveOnly(source, target_intervals) ==
    IF target_intervals = <<>> THEN source ELSE target_intervals

Combine(source, target_intervals) ==
    IF source = <<>> THEN target_intervals
    ELSE target_intervals \o source

\* The destructor: the vector and its storage are gone.
Destroy(intervals) == <<>>

\* ---------------------------------------------------------------- Finalize
\* interval.second + 1 in int64_t on a build that wraps.
EndPlusOne(second) ==
    ((second + 1 - MinInt64) % (2^IntBits)) + MinInt64

\* Does building the events overflow interval.second + 1 ?
EndOverflows(intervals) ==
    \E i \in DOMAIN intervals : intervals[i][2] = MaxInt64

\* The loop of lines 111-114: two events per interval, in the vector's order.
BuildEvents(intervals) ==
    [j \in 1..(2 * Len(intervals)) |->
        IF j % 2 = 1 THEN <<intervals[(j + 1) \div 2][1], 1>>
        ELSE <<EndPlusOne(intervals[j \div 2][2]), -1>>]

\* A comparator that orders by position alone.
EventLessPositionOnly(a, b) == a[1] < b[1]

\* The comparator handed to std::sort.
EventLess(a, b) ==
    IF a[1] = b[1] THEN a[2] < b[2] ELSE a[1] < b[1]

\* std::sort with EventLess: insertion of each event before the first
\* element it is less than.
InsertEvent(sorted, e) ==
    LET k == Cardinality({i \in DOMAIN sorted :
                            \A j \in 1..i : ~EventLess(e, sorted[j])})
    IN  SubSeq(sorted, 1, k) \o <<e>> \o SubSeq(sorted, k + 1, Len(sorted))

RECURSIVE SortEvents(_)
SortEvents(evs) ==
    IF evs = <<>> THEN <<>>
    ELSE InsertEvent(SortEvents(SubSeq(evs, 1, Len(evs) - 1)), evs[Len(evs)])

\* current_count after each event of the sweep.
RECURSIVE SweepCounts(_)
SweepCounts(evs) ==
    IF evs = <<>> THEN <<>>
    ELSE LET init == SweepCounts(SubSeq(evs, 1, Len(evs) - 1))
             current_count == IF init = <<>> THEN 0 ELSE init[Len(init)]
         IN  Append(init, current_count + evs[Len(evs)][2])

\* max_count: starts at 0 and follows current_count upwards.
MaxCountOf(counts) ==
    LET seen == {0} \cup {counts[i] : i \in DOMAIN counts}
    IN  CHOOSE m \in seen : \A c \in seen : c <= m

\* The events the sweep reads, Finalize's local vector.
FinalizeEvents(intervals, build) ==
    IF Len(intervals) <= 1 THEN <<>>
    ELSE IF build = "trap" /\ EndOverflows(intervals) THEN <<>>
    ELSE SortEvents(BuildEvents(intervals))

\* Finalize whose fast path also takes the empty state.
FinalizeTargetFastPathEmpty(intervals, build) ==
    IF Len(intervals) <= 1 THEN [outcome |-> "ok", value |-> 1]
    ELSE IF build = "trap" /\ EndOverflows(intervals)
         THEN [outcome |-> "trap", value |-> 0]
    ELSE [outcome |-> "ok",
          value |-> MaxCountOf(SweepCounts(FinalizeEvents(intervals, build)))]

\* Finalize without the single-interval fast path.
FinalizeTargetNoFastPath(intervals, build) ==
    IF intervals = <<>> THEN [outcome |-> "ok", value |-> 0]
    ELSE IF build = "trap" /\ EndOverflows(intervals)
         THEN [outcome |-> "trap", value |-> 0]
    ELSE [outcome |-> "ok",
          value |-> MaxCountOf(SweepCounts(SortEvents(BuildEvents(intervals))))]

FinalizeTarget(intervals, build) ==
    IF intervals = <<>> THEN [outcome |-> "ok", value |-> 0]
    ELSE IF Len(intervals) = 1 THEN [outcome |-> "ok", value |-> 1]
    ELSE IF build = "trap" /\ EndOverflows(intervals)
         THEN [outcome |-> "trap", value |-> 0]
    ELSE [outcome |-> "ok",
          value |-> MaxCountOf(SweepCounts(FinalizeEvents(intervals, build)))]

\* ------------------------------------------------------------------ Init
\* The number of intervals held by the two states together.
Stored == Len(states[1]) + Len(states[2])

Initialize ==
    /\ states = [s \in StateIds |-> MaxIntersectionsState]
    /\ status = "running"
    /\ finalized = 0
    /\ target = NoTarget
    /\ events = <<>>
    /\ sweep = <<>>
    /\ last = [op |-> "Initialize", s |-> 0, valid |-> TRUE, count |-> 0]
    /\ destroyed = {}
    /\ direct = MaxIntersectionsState
    /\ directTarget = NoTarget

Init == Initialize

\* --------------------------------------------------------------- actions
Accumulate(s, left, right) ==
    /\ status = "running"
    /\ Stored + 1 <= MaxIntervals
    /\ states' = [states EXCEPT ![s] = Operation(@, left, right)]
    /\ last' = [op |-> "Accumulate", s |-> s, valid |-> (left <= right),
                count |-> 1]
    /\ UNCHANGED <<status, finalized, target, events, sweep,
                   destroyed, direct, directTarget>>

ConstantAccumulate(s, left, right, count) ==
    /\ status = "running"
    /\ Stored + count <= MaxIntervals
    /\ states' = [states EXCEPT ![s] = ConstantOperation(@, left, right, count)]
    /\ last' = [op |-> "ConstantAccumulate", s |-> s,
                valid |-> (left <= right), count |-> count]
    /\ UNCHANGED <<status, finalized, target, events, sweep,
                   destroyed, direct, directTarget>>

Merge(source, tgt) ==
    /\ status = "running"
    /\ source # tgt
    /\ Stored + Len(states[source]) <= MaxIntervals
    /\ states' = [states EXCEPT ![tgt] = Combine(states[source], @)]
    /\ last' = [op |-> "Merge", s |-> tgt, valid |-> (states[source] # <<>>),
                count |-> 0]
    /\ UNCHANGED <<status, finalized, target, events, sweep,
                   destroyed, direct, directTarget>>

Finalize(s, build) ==
    /\ status = "running"
    /\ status' = "finalized"
    /\ finalized' = s
    /\ target' = FinalizeTarget(states[s], build)
    /\ events' = FinalizeEvents(states[s], build)
    /\ sweep' = SweepCounts(FinalizeEvents(states[s], build))
    /\ last' = [op |-> "Finalize", s |-> s, valid |-> TRUE, count |-> 0]
    /\ UNCHANGED <<states, destroyed, direct, directTarget>>

Next ==
    \/ \E s \in StateIds, left \in Endpoints, right \in Endpoints :
          Accumulate(s, left, right)
    \/ \E s \in StateIds, left \in Endpoints, right \in Endpoints,
          count \in 0..MaxCount :
          ConstantAccumulate(s, left, right, count)
    \/ \E source \in StateIds, tgt \in StateIds : Merge(source, tgt)
    \/ \E s \in StateIds, build \in OverflowOutcomes : Finalize(s, build)

Spec == Init /\ [][Next]_vars

\* ------------------------------------------- a parallel aggregation run
\* The host gives every execution unit a partial state, feeds rows one by
\* one to the units, combines a unit's state into another's and destroys
\* it, and finalizes the one state left.  direct is a single state that is
\* given every row in arrival order.
OrderInit ==
    /\ states = [u \in UnitIds |-> MaxIntersectionsState]
    /\ status = "running"
    /\ finalized = 0
    /\ target = NoTarget
    /\ events = <<>>
    /\ sweep = <<>>
    /\ last = [op |-> "Initialize", s |-> 0, valid |-> TRUE, count |-> 0]
    /\ destroyed = {}
    /\ direct = MaxIntersectionsState
    /\ directTarget = NoTarget

UnitAccumulate(u, left, right) ==
    /\ status = "running"
    /\ u \notin destroyed
    /\ Len(direct) + 1 <= MaxIntervals
    /\ states' = [states EXCEPT ![u] = Operation(@, left, right)]
    /\ direct' = Operation(direct, left, right)
    /\ UNCHANGED <<status, finalized, target, events, sweep, last,
                   destroyed, directTarget>>

UnitCombine(source, tgt) ==
    /\ status = "running"
    /\ source # tgt
    /\ source \notin destroyed
    /\ tgt \notin destroyed
    /\ states' = [states EXCEPT ![tgt] = Combine(states[source], @),
                                ![source] = Destroy(@)]
    /\ destroyed' = destroyed \cup {source}
    /\ UNCHANGED <<status, finalized, target, events, sweep, last,
                   direct, directTarget>>

UnitFinalize(u, build) ==
    /\ status = "running"
    /\ UnitIds \ destroyed = {u}
    /\ status' = "finalized"
    /\ finalized' = u
    /\ target' = FinalizeTarget(states[u], build)
    /\ events' = FinalizeEvents(states[u], build)
    /\ sweep' = SweepCounts(FinalizeEvents(states[u], build))
    /\ directTarget' = FinalizeTarget(direct, build)
    /\ UNCHANGED <<states, last, destroyed, direct>>

OrderNext ==
    \/ \E u \in UnitIds, left \in Endpoints, right \in Endpoints :
          UnitAccumulate(u, left, right)
    \/ \E source \in UnitIds, tgt \in UnitIds : UnitCombine(source, tgt)
    \/ \E u \in UnitIds, build \in OverflowOutcomes : UnitFinalize(u, build)

OrderSpec == OrderInit /\ [][OrderNext]_vars

\* ================================================================ claims
Ok(n) == [outcome |-> "ok", value |-> n]

\* The intervals of a vector that cover point p.
Covering(intervals, p) ==
    {i \in DOMAIN intervals : intervals[i][1] <= p /\ p <= intervals[i][2]}

\* The reference value: the largest number of stored intervals that share
\* an integer point, 0 for no interval.
RefMax(intervals) ==
    LET depth == {Cardinality(Covering(intervals, p)) : p \in Int64}
    IN  CHOOSE m \in depth : \A d \in depth : d <= m

AllStoredValid ==
    \A s \in StateIds : \A i \in DOMAIN states[s] :
        states[s][i][1] <= states[s][i][2]

\* C1: in every reachable state Finalize returns the reference value, the
\* maximum over all integer points of the number of stored intervals that
\* contain the point, and 0 for no interval.
C1_FinalizeIsReference ==
    status = "finalized" => target = Ok(RefMax(states[finalized]))

\* C3: Accumulate and ConstantAccumulate with left > right leave every state
\* as it was (and with it what the state finalizes to), and every stored
\* interval has start <= end.
C3_InvalidStep ==
    \A left \in Endpoints, right \in Endpoints :
        left > right =>
            /\ Accumulate(last'.s, left, right) => states' = states
            /\ ConstantAccumulate(last'.s, left, right, last'.count) =>
                  states' = states

C3_InvalidIsNoOp ==
    /\ []AllStoredValid
    /\ [][(last' # last /\ ~last'.valid) => C3_InvalidStep]_vars

\* A state that holds an interval has just received an invalid batch.
C3_Witness ==
    /\ last.op = "ConstantAccumulate"
    /\ ~last.valid
    /\ last.count = MaxCount
    /\ states[last.s] # <<>>

\* C4: Finalize returns 0 on a state that holds no interval, whether fresh,
\* given only invalid accumulations or merged from empty states.
C4_EmptyIsZero ==
    (status = "finalized" /\ states[finalized] = <<>>) => target = Ok(0)

\* Finalize ran on a state that holds nothing while another state does.
C4_Witness ==
    /\ status = "finalized"
    /\ states[finalized] = <<>>
    /\ \E s \in StateIds : states[s] # <<>>
    /\ target = Ok(0)

\* C5: a state holding a single valid interval finalizes to 1, also when the
\* interval ends at the largest representable value.
C5_SingleIsOne ==
    (status = "finalized" /\ Len(states[finalized]) = 1) => target = Ok(1)

\* Finalize ran on a single interval that ends at the largest value.
C5_Witness ==
    /\ status = "finalized"
    /\ Len(states[finalized]) = 1
    /\ states[finalized][1][2] = MaxInt64
    /\ target = Ok(1)

\* What two intervals finalize to: 2 when the later start is within the
\* earlier interval, else 1.
PairValue(x, y) ==
    LET first  == IF x[1] <= y[1] THEN x ELSE y
        second == IF x[1] <= y[1] THEN y ELSE x
    IN  IF second[1] <= first[2] THEN 2 ELSE 1

\* C6: two valid intervals (a, b), (c, d) with a <= c finalize to 2 when
\* c <= b and to 1 when c > b.
C6_TwoIntervals ==
    (status = "finalized" /\ Len(states[finalized]) = 2) =>
        target = Ok(PairValue(states[finalized][1], states[finalized][2]))

\* C7: ConstantAccumulate(state, left, right, count) leaves the state with
\* the sequence of intervals that count calls of Accumulate(state, left,
\* right) leave (and so with the same Finalize result), for every
\* count >= 0 and every left, right.
RECURSIVE OperationTimes(_, _, _, _)
OperationTimes(intervals, left, right, count) ==
    IF count = 0 THEN intervals
    ELSE OperationTimes(Operation(intervals, left, right), left, right,
                        count - 1)

C7_ConstantStep ==
    \A left \in Endpoints, right \in Endpoints :
        ConstantAccumulate(last'.s, left, right, last'.count) =>
            states'[last'.s]
                = OperationTimes(states[last'.s], left, right, last'.count)

C7_ConstantIsRepeated ==
    [][last'.op = "ConstantAccumulate" => C7_ConstantStep]_vars

\* A valid batch of several rows was added to a state.
C7_Witness ==
    /\ last.op = "ConstantAccumulate"
    /\ last.valid
    /\ last.count >= 2
    /\ Len(states[last.s]) >= 2

\* C8: Merge(source, target) leaves in target its previous intervals
\* followed by those of source, leaves source and every other state alone,
\* and changes nothing when source is empty.
C8_MergeStep ==
    \A source \in StateIds :
        Merge(source, last'.s) =>
            /\ states'[last'.s] = states[last'.s] \o states[source]
            /\ \A s \in StateIds \ {last'.s} : states'[s] = states[s]
            /\ states[source] = <<>> => states' = states

C8_MergeAppends == [][last'.op = "Merge" => C8_MergeStep]_vars

\* A non-empty source was merged into a target that held intervals.
C8_Witness ==
    /\ last.op = "Merge"
    /\ last.valid
    /\ \E source \in StateIds \ {last.s} :
          /\ states[source] # <<>>
          /\ Len(states[last.s]) > Len(states[source])

\* The events Finalize is to sweep for a vector of intervals: (start, +1)
\* and (end + 1, -1) for each.
RECURSIVE ExpectedEvents(_)
ExpectedEvents(intervals) ==
    IF intervals = <<>> THEN EmptyBag
    ELSE LET n == Len(intervals)
         IN  ExpectedEvents(SubSeq(intervals, 1, n - 1))
                (+) SetToBag({<<intervals[n][1], 1>>})
                (+) SetToBag({<<intervals[n][2] + 1, -1>>})

RECURSIVE EventBag(_)
EventBag(evs) ==
    IF evs = <<>> THEN EmptyBag
    ELSE EventBag(SubSeq(evs, 1, Len(evs) - 1))
            (+) SetToBag({<<evs[Len(evs)][1], evs[Len(evs)][2]>>})

EventsOrdered(evs) ==
    \A i \in DOMAIN evs : \A j \in DOMAIN evs :
        i < j => /\ evs[i][1] <= evs[j][1]
                 /\ (evs[i][1] = evs[j][1] => evs[i][2] <= evs[j][2])

\* C9: for k >= 2 intervals the sweep reads exactly 2k events, a (start, +1)
\* and an (end + 1, -1) per interval, in non-decreasing order of position
\* and with the -1 events first at each position.
C9_EventSequence ==
    (status = "finalized" /\ Len(states[finalized]) >= 2) =>
        /\ Len(events) = 2 * Len(states[finalized])
        /\ EventBag(events) = ExpectedEvents(states[finalized])
        /\ EventsOrdered(events)

\* C10: for n >= 1 valid intervals Finalize returns r with 1 <= r <= n, and
\* current_count is never negative during the sweep and 0 after it.
C10_ResultInRange ==
    (status = "finalized" /\ states[finalized] # <<>>) =>
        /\ target.outcome = "ok"
        /\ 1 <= target.value
        /\ target.value <= Len(states[finalized])
        /\ \A i \in DOMAIN sweep : sweep[i] >= 0
        /\ sweep # <<>> => sweep[Len(sweep)] = 0

\* C2: when the rows were spread over several states and the states were
\* combined into one, in any order and grouping, Finalize on that state
\* returns what Finalize returns on a single state given all the rows.
C2_OrderIndependent ==
    status = "finalized" => target = directTarget

\* Three rows went to different units, were combined into an order other
\* than the arrival order, and finalized to an overlap of 2.
C2_Witness ==
    /\ status = "finalized"
    /\ Cardinality(destroyed) = NumUnits - 1
    /\ Len(direct) >= 3
    /\ states[finalized] # direct
    /\ target = Ok(2)
    /\ directTarget = Ok(2)

\* ------------------------------------------------ away from the overflow
\* No interval of the finalized state ends at the largest value, so no
\* interval.second + 1 overflows.
OverflowFree == ~EndOverflows(states[finalized])

\* What C1 states, for the states in which no end + 1 overflows.
ReferenceWithoutOverflow ==
    (status = "finalized" /\ OverflowFree) =>
        target = Ok(RefMax(states[finalized]))

\* What C6 states, for the states in which no end + 1 overflows.
TwoIntervalsWithoutOverflow ==
    (status = "finalized" /\ Len(states[finalized]) = 2 /\ OverflowFree) =>
        target = Ok(PairValue(states[finalized][1], states[finalized][2]))

\* What C9 states, for the states in which no end + 1 overflows.
EventSequenceWithoutOverflow ==
    (status = "finalized" /\ Len(states[finalized]) >= 2 /\ OverflowFree) =>
        /\ Len(events) = 2 * Len(states[finalized])
        /\ EventBag(events) = ExpectedEvents(states[finalized])
        /\ EventsOrdered(events)

\* The count and the order of the events whenever the sweep runs at all.
EventOrderWhenSwept ==
    (status = "finalized" /\ Len(states[finalized]) >= 2
        /\ target.outcome = "ok") =>
        /\ Len(events) = 2 * Len(states[finalized])
        /\ EventsOrdered(events)

\* What C10 states, for the states in which no end + 1 overflows.
ResultInRangeWithoutOverflow ==
    (status = "finalized" /\ states[finalized] # <<>> /\ OverflowFree) =>
        /\ target.outcome = "ok"
        /\ 1 <= target.value
        /\ target.value <= Len(states[finalized])
        /\ \A i \in DOMAIN sweep : sweep[i] >= 0
        /\ sweep # <<>> => sweep[Len(sweep)] = 0

====
